---- MODULE Spec2Model ----
(***************************************************************************)
(* git-graphviz (src/main.go): the walk over a git object store that fills *)
(* the global accumulators refs, tags, commits, trees, blobs and edges,    *)
(* followed by render.  The recursion of walkRef / walk / walkObj /        *)
(* walkTag / walkCommit / walkTree is an explicit stack of frames; one     *)
(* step runs the top frame up to its next call or return.                  *)
(***************************************************************************)
EXTENDS Integers, Sequences, FiniteSets, TLC

(***************************************************************************)
(* Bounds of the model.                                                    *)
(***************************************************************************)
\* the longest list of root arguments on the command line
MaxArgs == 2
\* the deepest recursion the model follows (never reached by the program:
\* see DepthNeverBinds)
MaxDepth == 16

(***************************************************************************)
(* Strings and hashes.  A string is a sequence of tokens: a token below    *)
(* 256 is a pair of hex digits (one byte), any other token is text that is *)
(* not hex.  A hash is scaled down to one byte; ZeroHash is plumbing's     *)
(* zero value.                                                             *)
(***************************************************************************)
ZeroHash == 0

IsHexByte(tok) == tok < 256

\* hex.DecodeString: the bytes decoded before the first token that is not hex
\* (NewHash drops the error and keeps those bytes)
RECURSIVE HexPrefix(_)
HexPrefix(s) ==
    IF s = <<>> \/ ~IsHexByte(Head(s)) THEN <<>>
    ELSE <<Head(s)>> \o HexPrefix(Tail(s))

\* plumbing.NewHash(n): b, _ := hex.DecodeString(n); copy(h[:], b).  The
\* copy keeps the leading bytes that fit and leaves the rest zero.
NewHash(n) ==
    LET b == HexPrefix(n) IN IF b = <<>> THEN ZeroHash ELSE Head(b)

\* Hash.String(): the hex text of a hash
HashString(h) == <<h>>

(***************************************************************************)
(* Objects and references of a store.                                      *)
(***************************************************************************)
Blob == [type |-> "blob"]
Tree(entries) == [type |-> "tree", entries |-> entries]
Commit(tree, parents) == [type |-> "commit", tree |-> tree, parents |-> parents]
Tag(target) == [type |-> "tag", target |-> target]

\* Tree entries by mode: filemode.Dir; the modes for which FileMode.IsFile()
\* holds (Regular, Deprecated, Executable, Symlink: "file" stands for them);
\* filemode.Submodule; and any other mode a tree can decode to (filemode.Empty,
\* or an unusual permission word), for which none of walkTree's three tests
\* holds
Dir(h) == [mode |-> "dir", hash |-> h]
File(h) == [mode |-> "file", hash |-> h]
Submodule(h) == [mode |-> "submodule", hash |-> h]
OtherMode(h) == [mode |-> "other", hash |-> h]

HashRef(name, h) ==
    [name |-> name, type |-> "hash", hash |-> h, target |-> <<>>]
SymRef(name, target) ==
    [name |-> name, type |-> "symbolic", hash |-> ZeroHash, target |-> target]

\* reference names: text that is not hex, and one name that is the hex text
\* of a hash
HEAD == <<300>>
MASTER == <<301>>
TOPIC == <<302>>
V1 == <<303>>
HEXNAME == HashString(1)
ORIG == <<305>>
\* an argument that is neither a reference nor a hash of any store
BOGUS == <<304>>
\* a hash text followed by text that is not hex
TRAILING == <<1, 304>>

RefMap(rs) == [n \in {r.name : r \in rs} |-> CHOOSE r \in rs : r.name = n]

(***************************************************************************)
(* The stores the model runs on.  Objects refer to each other by hash; a   *)
(* hash that no object of the store has is an object of another object     *)
(* space, or a missing one.                                                *)
(***************************************************************************)
\* one commit, its tree and file, a tag on the commit, an object nothing
\* refers to, and a reference whose name is the hex text of a hash
LinearStore ==
    [objects |-> (1 :> Commit(2, <<>>)) @@ (2 :> Tree(<<File(3)>>)) @@ (3 :> Blob)
                 @@ (4 :> Tag(1)) @@ (5 :> Blob),
     references |-> RefMap({SymRef(HEAD, MASTER), HashRef(MASTER, 1),
                            HashRef(V1, 4), HashRef(HEXNAME, 3)})]

\* diamond-shaped ancestry (4 -> 2 -> 1 and 4 -> 3 -> 1), a tree shared by
\* several commits and by a directory entry, a blob shared by several entries
DiamondStore ==
    [objects |-> (1 :> Commit(5, <<>>)) @@ (2 :> Commit(5, <<1>>))
                 @@ (3 :> Commit(6, <<1>>)) @@ (4 :> Commit(5, <<2, 3>>))
                 @@ (5 :> Tree(<<File(7), File(7)>>))
                 @@ (6 :> Tree(<<Dir(5), File(7)>>)) @@ (7 :> Blob),
     references |-> RefMap({SymRef(HEAD, MASTER), HashRef(MASTER, 4),
                            HashRef(TOPIC, 3)})]

\* symbolic references that form a cycle, and one that leads into it
CycleStore ==
    [objects |-> (1 :> Blob) @@ (2 :> Tag(1)),
     references |-> RefMap({SymRef(HEAD, MASTER), SymRef(MASTER, HEAD),
                            SymRef(TOPIC, HEAD), HashRef(V1, 2)})]

\* broken links: a symbolic reference to no reference and one that leads to
\* it, a reference to no
\* object, a commit without its tree, a commit without its parent, a tag
\* without its target
DanglingStore ==
    [objects |-> (1 :> Commit(9, <<>>)) @@ (2 :> Tree(<<>>))
                 @@ (3 :> Commit(2, <<8>>)) @@ (4 :> Tag(9)) @@ (5 :> Tag(3)),
     references |-> RefMap({SymRef(HEAD, MASTER), SymRef(ORIG, HEAD),
                            HashRef(TOPIC, 9), HashRef(V1, 2)})]

\* submodule links: to a commit of another object space (8), and to a commit
\* this store holds too (1); a tag on a tree and a tag on a tag
SubmoduleStore ==
    [objects |-> (1 :> Commit(2, <<>>)) @@ (2 :> Tree(<<File(3)>>)) @@ (3 :> Blob)
                 @@ (4 :> Tree(<<File(3), Submodule(8)>>))
                 @@ (5 :> Tree(<<Submodule(1), OtherMode(3)>>))
                 @@ (6 :> Tag(5)) @@ (7 :> Tag(6)),
     references |-> RefMap({HashRef(MASTER, 1), HashRef(V1, 7)})]

\* entries whose mode disagrees with the kind the store holds for the target:
\* a file entry on a commit (1 -> 2), on a tree (6 -> 3) and on a missing
\* object (6 -> 9), a directory entry on a blob (5 -> 4)
MistypedStore ==
    [objects |-> (1 :> Tree(<<File(2)>>)) @@ (2 :> Commit(3, <<>>))
                 @@ (3 :> Tree(<<File(4)>>)) @@ (4 :> Blob)
                 @@ (5 :> Tree(<<Dir(4)>>)) @@ (6 :> Tree(<<File(3), File(9)>>)),
     references |-> RefMap({HashRef(MASTER, 2), HashRef(TOPIC, 6)})]

\* a tree with many entries on one subtree
FanStore ==
    [objects |-> (1 :> Tree(<<Dir(2), Dir(2), Dir(2), Dir(2), Dir(2), Dir(2),
                             Dir(2)>>))
                 @@ (2 :> Tree(<<>>)),
     references |-> RefMap({})]

Stores ==
    {LinearStore, DiamondStore, CycleStore, DanglingStore, SubmoduleStore,
     MistypedStore, FanStore}

\* the command-line arguments tried on a store: its reference names, the hex
\* text of its objects' hashes and of a hash it lacks, and text that names
\* nothing
ArgsOf(st) ==
    DOMAIN st.references \cup {HashString(h) : h \in DOMAIN st.objects}
        \cup {HashString(9), BOGUS, TRAILING}

ArgLists(st) ==
    UNION {[1..k -> ArgsOf(st)] : k \in 0..MaxArgs}

(***************************************************************************)
(* State.                                                                  *)
(***************************************************************************)
VARIABLES
    store,      \* r.Storer: the objects and references of the repository
    args,       \* flag.Args()
    pc,         \* where main is
    n,          \* main's position in flag.Args(), from 1
    todoObjs,   \* exhaustive mode: the objects IterEncodedObjects has yet to give
    todoRefs,   \* exhaustive mode: the references r.References() has yet to give
    stack,      \* the frames of the walker's calls, the running one first
    ret,        \* the value a call has just returned to the frame below it
    refs, tags, commits, trees, blobs, edges,   \* the accumulators, lines 18-25
    out,        \* what render printed on the standard output
    errmsg,     \* what check printed on the standard error
    exitCode,   \* the exit code of the process
    nCalls,     \* history: calls of walkRef, walk, walkTag, walkCommit, walkTree
    failed,     \* history: a root resolution or a store operation has failed
    expanded,   \* history: per hash, how often it was decoded and its edges set
    processed   \* history: per reference name, how often walkRef went past line 95

input == <<store, args>>
walkState == <<refs, tags, commits, trees, blobs, edges>>
mainState == <<pc, n, todoObjs, todoRefs>>
outputs == <<out, errmsg, exitCode>>
history == <<expanded, processed>>
vars == <<store, args, pc, n, todoObjs, todoRefs, stack, ret, refs, tags,
          commits, trees, blobs, edges, out, errmsg, exitCode, nCalls,
          failed, expanded, processed>>

NoOutput == [printed |-> FALSE]
Running == -1

(***************************************************************************)
(* The store's operations the walker uses (go-git).                        *)
(***************************************************************************)
\* Reference(name) returns a reference or plumbing.ErrReferenceNotFound
HasReference(name) == name \in DOMAIN store.references
Reference(name) == store.references[name]

\* HasEncodedObject(h) and EncodedObject(plumbing.AnyObject, h) return nil or
\* an object exactly when the store holds the hash
HasEncodedObject(h) == h \in DOMAIN store.objects
EncodedObject(h) == store.objects[h]

\* object.GetTag / GetCommit / GetTree: the object of that hash and that type,
\* or an error when the hash is absent or holds another type
HasTyped(h, t) == HasEncodedObject(h) /\ EncodedObject(h).type = t

(***************************************************************************)
(* Frames.                                                                 *)
(***************************************************************************)
NoRef == HashRef(<<>>, ZeroHash)

Frame(fn, h, ref) == [fn |-> fn, pc |-> "entry", h |-> h, ref |-> ref, i |-> 0]

Top == Head(stack)

\* walkObj is not one of the walker's five recursive functions
Counted(f) == IF f.fn = "walkObj" THEN 0 ELSE 1

\* the running frame calls f and will resume as cont
Call(f, cont) ==
    /\ Len(stack) < MaxDepth
    /\ stack' = <<f, cont>> \o Tail(stack)
    /\ ret' = "none"
    /\ nCalls' = nCalls + Counted(f)
    /\ failed' = failed

\* main calls f
CallFromMain(f) ==
    /\ stack' = <<f>>
    /\ ret' = "none"
    /\ nCalls' = nCalls + Counted(f)
    /\ failed' = failed

\* the running frame returns v to the frame below it
Return(v) ==
    /\ stack' = Tail(stack)
    /\ ret' = v
    /\ nCalls' = nCalls
    /\ failed' = (failed \/ v # "nil")

\* the running frame goes on as cont
Goto(cont) ==
    /\ stack' = <<cont>> \o Tail(stack)
    /\ ret' = "none"
    /\ nCalls' = nCalls
    /\ failed' = failed

Bump(f, x) == IF x \in DOMAIN f THEN [f EXCEPT ![x] = @ + 1] ELSE (x :> 1) @@ f

(***************************************************************************)
(* The tests and assignments of the walker, one definition each.           *)
(***************************************************************************)
RefSeenNever(ref) == FALSE

RefSeenByTarget(ref) == ref.target \in DOMAIN refs

\* lines 94-95: name := string(ref.Name()); _, ok := refs[name]
RefSeen(ref) == ref.name \in DOMAIN refs

SeenRefFails == "walkRef: reference cycle"

\* line 96: what walkRef returns for a name it has seen
SeenRefResult == "nil"

MissingTargetIgnored == "nil"

\* lines 102-105: what walkRef returns when s.Reference(ref.Target()) fails
MissingTargetResult == "walkRef: reference not found"

\* lines 110-114: the hash is in one of tags, commits, trees, blobs
SeenAnywhere(h) == h \in tags \cup commits \cup trees \cup blobs

\* lines 138, 151, 172
TagSeen(h) == h \in tags

CommitSeenNever(h) == FALSE

CommitSeen(h) == h \in commits

TreeSeenNever(h) == FALSE

TreeSeen(h) == h \in trees

EdgesOfForgets(ed, h) == <<>>

\* edges[h], nil when h has no entry
EdgesOf(ed, h) == IF h \in DOMAIN ed THEN ed[h] ELSE <<>>

\* edges[h] = targets
SetEdges(ed, h, targets) == (h :> targets) @@ ed

AppendEdgeOnce(ed, h, target) ==
    IF \E k \in 1..Len(EdgesOf(ed, h)) : EdgesOf(ed, h)[k] = target THEN ed
    ELSE (h :> Append(EdgesOf(ed, h), target)) @@ ed

\* edges[h] = append(edges[h], target)
AppendEdge(ed, h, target) == (h :> Append(EdgesOf(ed, h), target)) @@ ed

CommitEdgesParentsOnly(c) == c.parents

\* line 159: append(commit.ParentHashes[:], commit.TreeHash)
CommitEdges(c) == Append(c.parents, c.tree)

MarkBlobSkipped(bl, h) == bl

\* line 132: blobs[h] = true
MarkBlob(bl, h) == bl \cup {h}

MarkEntryBlobSkipped(bl, h) == bl

\* line 189: blobs[entry.Hash] = true
MarkEntryBlob(bl, h) == bl \cup {h}

IsFileIfStored(entry) == entry.mode = "file" /\ HasTyped(entry.hash, "blob")

\* line 187: entry.Mode.IsFile()
IsFile(entry) == entry.mode = "file"

ErrorDropped(err) == FALSE

\* lines 160-162, 164-166, 183-185, 193-195: if err != nil { return err }
IsError(err) == err # "nil"

FatalNever(err) == FALSE

\* check, lines 86-91: whether err ends the process
Fatal(err) == err # "nil"

RootOfHashFirst(a) ==
    IF HasEncodedObject(NewHash(a))
    THEN [as |-> "hash", ref |-> NoRef, h |-> NewHash(a)]
    ELSE IF HasReference(a)
         THEN [as |-> "ref", ref |-> Reference(a), h |-> ZeroHash]
         ELSE [as |-> "none", ref |-> NoRef, h |-> ZeroHash]

\* lines 43-53: what a root argument is walked as.  The reference of that
\* name if there is one; else the object whose hash the argument decodes to
\* if the store has it; else nothing (check(err) ends the run)
RootOf(a) ==
    IF HasReference(a)
    THEN [as |-> "ref", ref |-> Reference(a), h |-> ZeroHash]
    ELSE IF HasEncodedObject(NewHash(a))
         THEN [as |-> "hash", ref |-> NoRef, h |-> NewHash(a)]
         ELSE [as |-> "none", ref |-> NoRef, h |-> ZeroHash]

(***************************************************************************)
(* render, lines 201-263: one node statement per member of each kind-set,  *)
(* one node and one edge statement per reference, one edge statement per   *)
(* element of each list of edges.  Go ranges over maps in no fixed order:  *)
(* the statements are kept as sets, the edge statements with their count.  *)
(***************************************************************************)
Count(seq, x) == Cardinality({k \in 1..Len(seq) : seq[k] = x})

RefTargetAlwaysName(ref) == [hash |-> FALSE, to |-> ref.target]

\* lines 246-249: the target printed for a reference
RefTarget(ref) ==
    IF ref.type = "hash" THEN [hash |-> TRUE, to |-> HashString(ref.hash)]
    ELSE [hash |-> FALSE, to |-> ref.target]

RenderOutput ==
    [printed |-> TRUE,
     nodes |-> {[id |-> HashString(h), kind |-> "tag"] : h \in tags}
               \cup {[id |-> HashString(h), kind |-> "commit"] : h \in commits}
               \cup {[id |-> HashString(h), kind |-> "tree"] : h \in trees}
               \cup {[id |-> HashString(h), kind |-> "blob"] : h \in blobs},
     refNodes |-> DOMAIN refs,
     refEdges |-> [name \in DOMAIN refs |-> RefTarget(refs[name])],
     edges |-> [h \in DOMAIN edges |->
                  [t \in {edges[h][k] : k \in 1..Len(edges[h])} |->
                      Count(edges[h], t)]]]

(***************************************************************************)
(* Init: the accumulators as lines 18-25 make them, a store and a command  *)
(* line.                                                                   *)
(***************************************************************************)
Init ==
    /\ store \in Stores
    /\ args \in ArgLists(store)
    /\ pc = "start"
    /\ n = 1
    /\ todoObjs = {}
    /\ todoRefs = {}
    /\ stack = <<>>
    /\ ret = "none"
    /\ refs = <<>>
    /\ tags = {}
    /\ commits = {}
    /\ trees = {}
    /\ blobs = {}
    /\ edges = <<>>
    /\ out = NoOutput
    /\ errmsg = "none"
    /\ exitCode = Running
    /\ nCalls = 0
    /\ failed = FALSE
    /\ expanded = <<>>
    /\ processed = <<>>

(***************************************************************************)
(* main, lines 32-69.                                                      *)
(***************************************************************************)
\* lines 38-41 and 55-57: the repository is open; with arguments main goes
\* through them, without any it enumerates every object of the store
MainStart ==
    /\ pc = "start"
    /\ IF Len(args) > 0
       THEN pc' = "args" /\ todoObjs' = todoObjs
       ELSE pc' = "objs" /\ todoObjs' = DOMAIN store.objects
    /\ UNCHANGED <<input, n, todoRefs, stack, ret, walkState, outputs, nCalls,
                   failed, history>>

\* lines 42-54: the next root argument, or the end of the loop
MainArg ==
    /\ pc = "args" /\ stack = <<>> /\ ret = "none"
    /\ IF n > Len(args)
       THEN /\ pc' = "render"
            /\ UNCHANGED <<stack, ret, nCalls, failed, outputs>>
       ELSE LET root == RootOf(args[n]) IN
            IF root.as = "ref"
            THEN /\ CallFromMain(Frame("walkRef", ZeroHash, root.ref))
                 /\ UNCHANGED <<pc, outputs>>
            ELSE IF root.as = "hash"
            THEN /\ CallFromMain(Frame("walk", root.h, NoRef))
                 /\ UNCHANGED <<pc, outputs>>
            ELSE /\ pc' = "exit"
                 /\ errmsg' = "reference not found"
                 /\ exitCode' = 1
                 /\ failed' = TRUE
                 /\ UNCHANGED <<stack, ret, nCalls, out>>
    /\ UNCHANGED <<input, n, todoObjs, todoRefs, walkState, history>>

\* lines 56-60: objs.ForEach gives walkObj the next object, in the store's
\* order; after the last one main lists the references (lines 61-62)
MainObjs ==
    /\ pc = "objs" /\ stack = <<>> /\ ret = "none"
    /\ IF todoObjs = {}
       THEN /\ pc' = "refs"
            /\ todoRefs' = DOMAIN store.references
            /\ UNCHANGED <<todoObjs, stack, ret, nCalls, failed>>
       ELSE \E h \in todoObjs :
                /\ todoObjs' = todoObjs \ {h}
                /\ CallFromMain(Frame("walkObj", h, NoRef))
                /\ UNCHANGED <<pc, todoRefs>>
    /\ UNCHANGED <<input, n, walkState, outputs, history>>

\* lines 63-65: refs.ForEach gives walkRef the next reference
MainRefs ==
    /\ pc = "refs" /\ stack = <<>> /\ ret = "none"
    /\ IF todoRefs = {}
       THEN /\ pc' = "render"
            /\ UNCHANGED <<todoRefs, stack, ret, nCalls, failed>>
       ELSE \E name \in todoRefs :
                /\ todoRefs' = todoRefs \ {name}
                /\ CallFromMain(Frame("walkRef", ZeroHash, Reference(name)))
                /\ UNCHANGED pc
    /\ UNCHANGED <<input, n, todoObjs, walkState, outputs, history>>

\* check(err) on what a walk returned to main (lines 48, 53, 58, 63): an
\* error is printed and the process exits with 1 (lines 86-91); after nil
\* the loop goes on
MainCheck ==
    /\ pc \in {"args", "objs", "refs"} /\ stack = <<>> /\ ret # "none"
    /\ IF Fatal(ret)
       THEN /\ pc' = "exit"
            /\ errmsg' = ret
            /\ exitCode' = 1
            /\ UNCHANGED <<n, out>>
       ELSE /\ n' = IF pc = "args" THEN n + 1 ELSE n
            /\ UNCHANGED <<pc, outputs>>
    /\ ret' = "none"
    /\ UNCHANGED <<input, todoObjs, todoRefs, stack, walkState, nCalls, failed,
                   history>>

\* line 68 and the return of main
Render ==
    /\ pc = "render"
    /\ out' = RenderOutput
    /\ pc' = "exit"
    /\ exitCode' = 0
    /\ UNCHANGED <<input, n, todoObjs, todoRefs, stack, ret, walkState, errmsg,
                   nCalls, failed, history>>

(***************************************************************************)
(* The walker, lines 93-199.                                               *)
(***************************************************************************)
Running_(fn) == stack # <<>> /\ Top.fn = fn
AtEntry(fn) == Running_(fn) /\ Top.pc = "entry" /\ ret = "none"
Resumed(fn) == Running_(fn) /\ Top.pc # "entry" /\ ret # "none"
Waiting(p) == [Top EXCEPT !.pc = p]

\* return walk(...), return walkRef(...), return walkTag(...): the frame
\* hands on what its last call returned
TailReturn(fn) ==
    /\ Resumed(fn) /\ Top.pc = "tail"
    /\ Return(ret)
    /\ UNCHANGED <<input, mainState, walkState, outputs, history>>

\* walkRef, lines 93-107
WalkRef ==
    \/ /\ AtEntry("walkRef")
       /\ LET ref == Top.ref IN
          IF RefSeen(ref)
          THEN /\ Return(SeenRefResult)
               /\ UNCHANGED <<refs, processed>>
          ELSE /\ refs' = (ref.name :> ref) @@ refs
               /\ processed' = Bump(processed, ref.name)
               /\ IF ref.type = "hash"
                  THEN Call(Frame("walk", ref.hash, NoRef), Waiting("tail"))
                  ELSE IF HasReference(ref.target)
                  THEN Call(Frame("walkRef", ZeroHash, Reference(ref.target)),
                            Waiting("tail"))
                  ELSE Return(MissingTargetResult)
       /\ UNCHANGED <<input, mainState, tags, commits, trees, blobs, edges,
                      outputs, expanded>>
    \/ TailReturn("walkRef")

\* walk, lines 109-120
Walk ==
    \/ /\ AtEntry("walk")
       /\ IF SeenAnywhere(Top.h)
          THEN Return("nil")
          ELSE IF HasEncodedObject(Top.h)
          THEN Call(Frame("walkObj", Top.h, NoRef), Waiting("tail"))
          ELSE Return("walk: object not found")
       /\ UNCHANGED <<input, mainState, walkState, outputs, history>>
    \/ TailReturn("walk")

\* walkObj, lines 122-135
WalkObj ==
    \/ /\ AtEntry("walkObj")
       /\ LET t == EncodedObject(Top.h).type IN
          IF t = "tag"
          THEN Call(Frame("walkTag", Top.h, NoRef), Waiting("tail"))
               /\ blobs' = blobs
          ELSE IF t = "commit"
          THEN Call(Frame("walkCommit", Top.h, NoRef), Waiting("tail"))
               /\ blobs' = blobs
          ELSE IF t = "tree"
          THEN Call(Frame("walkTree", Top.h, NoRef), Waiting("tail"))
               /\ blobs' = blobs
          ELSE /\ blobs' = MarkBlob(blobs, Top.h)
               /\ Return("nil")
       /\ UNCHANGED <<input, mainState, refs, tags, commits, trees, edges,
                      outputs, history>>
    \/ TailReturn("walkObj")

\* walkTag, lines 137-148
WalkTag ==
    \/ /\ AtEntry("walkTag")
       /\ LET h == Top.h IN
          IF TagSeen(h)
          THEN /\ Return("nil")
               /\ UNCHANGED <<tags, edges, expanded>>
          ELSE /\ tags' = tags \cup {h}
               /\ IF HasTyped(h, "tag")
                  THEN /\ edges' = SetEdges(edges, h, <<EncodedObject(h).target>>)
                       /\ expanded' = Bump(expanded, h)
                       /\ Call(Frame("walk", EncodedObject(h).target, NoRef),
                               Waiting("tail"))
                  ELSE /\ Return("walkTag: object not found")
                       /\ UNCHANGED <<edges, expanded>>
       /\ UNCHANGED <<input, mainState, refs, commits, trees, blobs, outputs,
                      processed>>
    \/ TailReturn("walkTag")

\* walkCommit, lines 150-169
WalkCommit ==
    \/ /\ AtEntry("walkCommit")
       /\ LET h == Top.h IN
          IF CommitSeen(h)
          THEN /\ Return("nil")
               /\ UNCHANGED <<commits, edges, expanded>>
          ELSE /\ commits' = commits \cup {h}
               /\ IF HasTyped(h, "commit")
                  THEN /\ edges' = SetEdges(edges, h, CommitEdges(EncodedObject(h)))
                       /\ expanded' = Bump(expanded, h)
                       /\ Call(Frame("walkTree", EncodedObject(h).tree, NoRef),
                               Waiting("loop"))
                  ELSE /\ Return("walkCommit: object not found")
                       /\ UNCHANGED <<edges, expanded>>
       /\ UNCHANGED <<input, mainState, refs, tags, trees, blobs, outputs,
                      processed>>
    \* lines 160-168: after walkTree and after each parent's walkCommit, an
    \* error is returned; else the next parent is walked, and nil after the last
    \/ /\ Resumed("walkCommit") /\ Top.pc = "loop"
       /\ LET parents == EncodedObject(Top.h).parents
              j == Top.i + 1
          IN  IF IsError(ret)
              THEN Return(ret)
              ELSE IF j > Len(parents)
              THEN Return("nil")
              ELSE Call(Frame("walkCommit", parents[j], NoRef),
                        [Top EXCEPT !.i = j])
       /\ UNCHANGED <<input, mainState, walkState, outputs, history>>

\* walkTree, lines 171-199
WalkTree ==
    \/ /\ AtEntry("walkTree")
       /\ LET h == Top.h IN
          IF TreeSeen(h)
          THEN /\ Return("nil")
               /\ UNCHANGED <<trees, expanded>>
          ELSE /\ trees' = trees \cup {h}
               /\ IF HasTyped(h, "tree")
                  THEN /\ expanded' = Bump(expanded, h)
                       /\ Goto([Top EXCEPT !.pc = "loop", !.i = 1])
                  ELSE /\ Return("walkTree: object not found")
                       /\ UNCHANGED expanded
       /\ UNCHANGED <<input, mainState, refs, tags, commits, blobs, edges,
                      outputs, processed>>
    \* lines 180-197: the entry at Top.i, or return nil after the last entry
    \/ /\ Running_("walkTree") /\ Top.pc = "loop" /\ ret = "none"
       /\ LET h == Top.h
              entries == EncodedObject(h).entries
          IN  IF Top.i > Len(entries)
              THEN /\ Return("nil")
                   /\ UNCHANGED <<edges, blobs>>
              ELSE LET entry == entries[Top.i] IN
                   IF entry.mode = "dir"
                   THEN /\ edges' = AppendEdge(edges, h, entry.hash)
                        /\ Call(Frame("walkTree", entry.hash, NoRef),
                                Waiting("called"))
                        /\ blobs' = blobs
                   ELSE IF IsFile(entry)
                   THEN /\ edges' = AppendEdge(edges, h, entry.hash)
                        /\ blobs' = MarkEntryBlob(blobs, entry.hash)
                        /\ Goto([Top EXCEPT !.i = @ + 1])
                   ELSE IF entry.mode = "submodule"
                   THEN /\ edges' = AppendEdge(edges, h, entry.hash)
                        /\ Call(Frame("walkCommit", entry.hash, NoRef),
                                Waiting("called"))
                        /\ blobs' = blobs
                   ELSE /\ Goto([Top EXCEPT !.i = @ + 1])
                        /\ UNCHANGED <<edges, blobs>>
       /\ UNCHANGED <<input, mainState, refs, tags, commits, trees, outputs,
                      history>>
    \* lines 183-185 and 193-195: what the entry's walk returned
    \/ /\ Resumed("walkTree") /\ Top.pc = "called"
       /\ IF IsError(ret)
          THEN Return(ret)
          ELSE Goto([Top EXCEPT !.pc = "loop", !.i = @ + 1])
       /\ UNCHANGED <<input, mainState, walkState, outputs, history>>

Next ==
    \/ MainStart
    \/ MainArg
    \/ MainObjs
    \/ MainRefs
    \/ MainCheck
    \/ Render
    \/ WalkRef
    \/ Walk
    \/ WalkObj
    \/ WalkTag
    \/ WalkCommit
    \/ WalkTree

Spec == Init /\ [][Next]_vars

\* the process has exited
Done == pc = "exit"

\* every step of the walk and of main is taken as long as the process runs
LiveSpec == Spec /\ WF_vars(Next)

\* the bound on the depth of the recursion is never what stops a call
DepthNeverBinds == Len(stack) < MaxDepth

(***************************************************************************)
(* What the store says, for the statements below.                          *)
(***************************************************************************)
Range(seq) == {seq[k] : k \in 1..Len(seq)}

KindSets == <<tags, commits, trees, blobs>>
Visited == tags \cup commits \cup trees \cup blobs

\* the hashes an object links to: tag -> target, commit -> tree and parents,
\* tree -> the target of each entry
Links(h) ==
    IF ~HasEncodedObject(h) THEN {}
    ELSE LET o == EncodedObject(h) IN
         IF o.type = "tag" THEN {o.target}
         ELSE IF o.type = "commit" THEN {o.tree} \cup Range(o.parents)
         ELSE IF o.type = "tree" THEN {e.hash : e \in Range(o.entries)}
         ELSE {}

RECURSIVE Closure(_)
Closure(S) ==
    LET T == S \cup UNION {Links(h) : h \in S}
    IN  IF T = S THEN S ELSE Closure(T)

\* the names on the symbolic chain that starts at a reference name
RECURSIVE Chain(_, _)
Chain(name, seen) ==
    IF name \in seen \/ ~HasReference(name) THEN seen
    ELSE IF Reference(name).type = "hash" THEN seen \cup {name}
    ELSE Chain(Reference(name).target, seen \cup {name})

\* the hash a root argument resolves to, if any
RootHashes(a) ==
    IF HasReference(a)
    THEN {Reference(m).hash : m \in {k \in Chain(a, {}) : Reference(k).type = "hash"}}
    ELSE {NewHash(a)}

Completed == pc = "exit" /\ exitCode = 0

(***************************************************************************)
(* C1.  In every state of a walk the four kind-sets are pairwise disjoint: *)
(* no hash is a member of two of them, also not a hash that a regular-file *)
(* entry put into blobs or a submodule entry put into commits.             *)
(* Violated: a regular-file entry puts its target into blobs without       *)
(* looking at the other kind-sets (line 189).                              *)
(***************************************************************************)
C1_KindSetsDisjoint ==
    \A i, j \in 1..4 : i # j => KindSets[i] \cap KindSets[j] = {}

(***************************************************************************)
(* C2.  When a walk from explicit roots completes without error, the union *)
(* of the kind-sets is exactly the set of hashes reachable from the        *)
(* resolved roots over tag -> target, commit -> tree, commit -> parent and *)
(* tree -> entry.  Violated: the target of a regular-file entry is taken   *)
(* for a blob and never expanded, whatever the store holds for it.         *)
(***************************************************************************)
C2_UnionIsReachable ==
    (Completed /\ args # <<>>) =>
        Visited = Closure(UNION {RootHashes(a) : a \in Range(args)})

(***************************************************************************)
(* C3.  The traversal of a finite store always terminates, with success or *)
(* with an error: for any roots and in exhaustive mode, with diamond       *)
(* ancestry, shared trees and cyclic symbolic references.                  *)
(***************************************************************************)
C3_Terminates == <>Done

\* a run that walked the cyclic symbolic references has ended
C3_Witness ==
    /\ Done
    /\ store = CycleStore
    /\ {HEAD, MASTER, TOPIC} \subseteq DOMAIN refs

(***************************************************************************)
(* C4.  A reference name is processed at most once in a run, and walkRef   *)
(* on a name that is in the reference map returns nil at once: it resolves *)
(* no target, calls nothing and leaves the accumulators as they are.       *)
(***************************************************************************)
C4_RefOncePerName ==
    /\ [](\A name \in DOMAIN processed : processed[name] <= 1)
    /\ [][(AtEntry("walkRef") /\ Top.ref.name \in DOMAIN refs) =>
            /\ stack' = Tail(stack)
            /\ ret' = "nil"
            /\ UNCHANGED <<walkState, history, nCalls>>]_vars

\* walkRef has come back to a name of a symbolic chain that it has processed
C4_Witness ==
    /\ AtEntry("walkRef")
    /\ Top.ref.name \in DOMAIN refs
    /\ Len(stack) > 1
    /\ processed[Top.ref.name] = 1

(***************************************************************************)
(* C5.  As claimed: on a store whose symbolic references form a cycle,     *)
(* walking a reference of the cycle ends in a failure (an error, exit code *)
(* 1, no graph).                                                           *)
(***************************************************************************)
\* every root argument is a reference whose symbolic chain never ends
Cyclic(name) ==
    /\ HasReference(name)
    /\ \A k \in Chain(name, {}) :
          /\ Reference(k).type = "symbolic"
          /\ Reference(k).target \in Chain(name, {})

CyclicRoots == args # <<>> /\ \A a \in Range(args) : Cyclic(a)

AllRootsWalked ==
    /\ stack = <<>>
    /\ IF args # <<>> THEN n > Len(args) ELSE todoObjs = {} /\ todoRefs = {}

C6_NoPartialGraph ==
    /\ failed => (~out.printed /\ pc # "render")
    /\ (failed /\ Done) => (exitCode = 1 /\ errmsg # "none")
    /\ out.printed => (~failed /\ AllRootsWalked /\ exitCode = 0)
    /\ Done => (exitCode \in {0, 1} /\ (exitCode = 0 <=> out.printed))

\* a walk that had filled part of the accumulators has failed and exited
C6_Witness ==
    /\ Done
    /\ failed
    /\ exitCode = 1
    /\ ~out.printed
    /\ commits # {} /\ edges # <<>>

(***************************************************************************)
(* C7.  A root argument that names a reference is walked as that reference *)
(* even when it also decodes to a hash of the store; otherwise it is       *)
(* walked from the hash it decodes to if the store has that hash;          *)
(* otherwise the run fails on that argument.                               *)
(***************************************************************************)
Resolvable(a) == a \in DOMAIN store.references \/ NewHash(a) \in DOMAIN store.objects

C7_RootResolution ==
    /\ \A k \in 1..Len(args) : k < n => Resolvable(args[k])
    /\ (pc = "args" /\ stack # <<>>) =>
          LET a == args[n]
              root == stack[Len(stack)]
          IN  IF a \in DOMAIN store.references
              THEN root.fn = "walkRef" /\ root.ref = store.references[a]
              ELSE /\ root.fn = "walk"
                   /\ root.h = NewHash(a)
                   /\ root.h \in DOMAIN store.objects
    /\ (Done /\ n <= Len(args) /\ ~Resolvable(args[n])) =>
          (exitCode = 1 /\ errmsg = "reference not found")
    /\ errmsg = "reference not found" =>
          (Done /\ exitCode = 1 /\ n <= Len(args) /\ ~Resolvable(args[n]))

\* the argument is the name of a reference and the hex text of an object's
\* hash, and it is being walked as the reference
C7_Witness ==
    /\ pc = "args" /\ stack # <<>>
    /\ args[n] = HEXNAME
    /\ HasReference(HEXNAME) /\ HasEncodedObject(NewHash(HEXNAME))
    /\ stack[Len(stack)].fn = "walkRef"

(***************************************************************************)
(* C8.  Exhaustive mode (no root arguments): when the walk completes,      *)
(* every object of the store is in the kind-set of its own kind and every  *)
(* reference name of the store is in the reference map, and all of them    *)
(* are rendered, whether or not anything points to them.                   *)
(***************************************************************************)
KindSetOf(t) ==
    IF t = "tag" THEN tags
    ELSE IF t = "commit" THEN commits
    ELSE IF t = "tree" THEN trees
    ELSE blobs

C8_ExhaustiveVisitsAll ==
    (Completed /\ args = <<>>) =>
        /\ \A h \in DOMAIN store.objects :
              /\ h \in KindSetOf(store.objects[h].type)
              /\ [id |-> HashString(h), kind |-> store.objects[h].type] \in out.nodes
        /\ \A name \in DOMAIN store.references :
              /\ name \in DOMAIN refs
              /\ name \in out.refNodes

\* the exhaustive walk of a store with an object that nothing points to
C8_Witness ==
    /\ Completed /\ args = <<>>
    /\ 5 \in blobs
    /\ \A h \in DOMAIN store.objects : 5 \notin Links(h)
    /\ \A name \in DOMAIN store.references : store.references[name].hash # 5

(***************************************************************************)
(* C9.  Nodes are deduplicated, edges are not: when the walk completes, a  *)
(* hash that several regular-file entries point at (of one tree or of      *)
(* several) is in the blob set and rendered as one blob node, and every    *)
(* visited tree has one edge into it per entry that points at it, in the   *)
(* edge list and in the rendered graph.                                    *)
(***************************************************************************)
EntryCount(t, x) ==
    Cardinality({k \in 1..Len(EncodedObject(t).entries) :
                    /\ EncodedObject(t).entries[k].hash = x
                    /\ EncodedObject(t).entries[k].mode \in {"dir", "file", "submodule"}})

FileTargets(t) ==
    {e.hash : e \in {f \in Range(EncodedObject(t).entries) : f.mode = "file"}}

C9_EdgesNotDeduplicated ==
    Completed =>
        \A t \in trees : HasTyped(t, "tree") =>
            /\ \A x \in Links(t) :
                  /\ Count(EdgesOf(edges, t), x) = EntryCount(t, x)
                  /\ EntryCount(t, x) > 0 => out.edges[t][x] = EntryCount(t, x)
            /\ \A x \in FileTargets(t) :
                  /\ x \in blobs
                  /\ Cardinality({nd \in out.nodes :
                                    nd.id = HashString(x) /\ nd.kind = "blob"}) = 1

\* blob 7 has two edges from tree 5 and one from tree 6
C9_Witness ==
    /\ Completed
    /\ store = DiamondStore
    /\ {5, 6} \subseteq trees
    /\ 7 \in blobs
    /\ Count(edges[5], 7) = 2
    /\ Count(edges[6], 7) = 1

(***************************************************************************)
(* C10.  In any run a hash is expanded (decoded as a tag, commit or tree,  *)
(* its edges recorded, its children walked) at most once, however many     *)
(* roots, references, tags, parents and entries lead to it.                *)
(***************************************************************************)
C10_ExpandedAtMostOnce ==
    \A h \in DOMAIN expanded : expanded[h] <= 1

\* the root commit of the diamond, reached over both of its children and as
\* a root of its own, has been expanded once
C10_Witness ==
    /\ Completed
    /\ store = DiamondStore
    /\ args = <<MASTER, HashString(1)>>
    /\ {1, 2, 3, 4} \subseteq commits
    /\ expanded[1] = 1

(***************************************************************************)
(* C11.  Walking a symbolic reference whose target is no reference of the  *)
(* store fails with the reference-resolution error: the run exits with 1   *)
(* and prints no graph, whether the reference is a root argument, the      *)
(* target of another symbolic reference, or met in exhaustive mode.        *)
(***************************************************************************)
\* the symbolic references walkRef has processed whose target does not exist
BrokenProcessed ==
    {name \in DOMAIN refs :
        refs[name].type = "symbolic" /\ ~HasReference(refs[name].target)}

C12_AbortsAtOnce ==
    [][failed =>
          /\ UNCHANGED <<walkState, history, nCalls, n, todoObjs, todoRefs>>
          /\ Len(stack') <= Len(stack)
          /\ pc' \in {pc, "exit"}
          /\ ~out'.printed]_vars

\* the first of two resolvable roots has failed part-way and the run has
\* ended without the second
C12_Witness ==
    /\ Done
    /\ failed
    /\ Len(args) = 2 /\ n = 1
    /\ Resolvable(args[2])
    /\ args[2] \notin DOMAIN refs /\ NewHash(args[2]) \notin Visited
    /\ edges # <<>>

(***************************************************************************)
(* The walk as a function of the store and the root list: what one run of  *)
(* main's loop over the roots (lines 41-66) leaves in the accumulators,    *)
(* computed call by call from a fresh Walk State.  err is the error the    *)
(* walk returns, "nil" for none.                                           *)
(***************************************************************************)
Fresh ==
    [refs |-> <<>>, tags |-> {}, commits |-> {}, trees |-> {}, blobs |-> {},
     edges |-> <<>>, err |-> "nil"]

RECURSIVE RunWalkRef(_, _), RunWalk(_, _), RunWalkTag(_, _), RunWalkCommit(_, _),
          RunParents(_, _, _), RunWalkTree(_, _), RunEntries(_, _, _),
          RunRoots(_, _, _), RunObjects(_, _), RunReferences(_, _)

\* walkObj, lines 122-135
RunWalkObj(w, h) ==
    LET t == store.objects[h].type IN
    IF t = "tag" THEN RunWalkTag(w, h)
    ELSE IF t = "commit" THEN RunWalkCommit(w, h)
    ELSE IF t = "tree" THEN RunWalkTree(w, h)
    ELSE [w EXCEPT !.blobs = @ \cup {h}]

\* walkRef, lines 93-107
RunWalkRef(w, ref) ==
    IF ref.name \in DOMAIN w.refs THEN w
    ELSE LET w1 == [w EXCEPT !.refs = (ref.name :> ref) @@ @] IN
         IF ref.type = "hash" THEN RunWalk(w1, ref.hash)
         ELSE IF ref.target \in DOMAIN store.references
         THEN RunWalkRef(w1, store.references[ref.target])
         ELSE [w1 EXCEPT !.err = "walkRef: reference not found"]

\* walk, lines 109-120
RunWalk(w, h) ==
    IF h \in w.tags \cup w.commits \cup w.trees \cup w.blobs THEN w
    ELSE IF h \in DOMAIN store.objects THEN RunWalkObj(w, h)
    ELSE [w EXCEPT !.err = "walk: object not found"]

\* walkTag, lines 137-148
RunWalkTag(w, h) ==
    IF h \in w.tags THEN w
    ELSE LET w1 == [w EXCEPT !.tags = @ \cup {h}] IN
         IF h \in DOMAIN store.objects /\ store.objects[h].type = "tag"
         THEN RunWalk([w1 EXCEPT !.edges = (h :> <<store.objects[h].target>>) @@ @],
                      store.objects[h].target)
         ELSE [w1 EXCEPT !.err = "walkTag: object not found"]

\* walkCommit, lines 150-169
RunWalkCommit(w, h) ==
    IF h \in w.commits THEN w
    ELSE LET w1 == [w EXCEPT !.commits = @ \cup {h}] IN
         IF h \in DOMAIN store.objects /\ store.objects[h].type = "commit"
         THEN LET c == store.objects[h]
                  w2 == [w1 EXCEPT !.edges = (h :> (c.parents \o <<c.tree>>)) @@ @]
                  w3 == RunWalkTree(w2, c.tree)
              IN  IF w3.err # "nil" THEN w3 ELSE RunParents(w3, c.parents, 1)
         ELSE [w1 EXCEPT !.err = "walkCommit: object not found"]

\* lines 163-167
RunParents(w, parents, i) ==
    IF i > Len(parents) THEN w
    ELSE LET w1 == RunWalkCommit(w, parents[i]) IN
         IF w1.err # "nil" THEN w1 ELSE RunParents(w1, parents, i + 1)

\* walkTree, lines 171-199
RunWalkTree(w, h) ==
    IF h \in w.trees THEN w
    ELSE LET w1 == [w EXCEPT !.trees = @ \cup {h}] IN
         IF h \in DOMAIN store.objects /\ store.objects[h].type = "tree"
         THEN RunEntries(w1, h, 1)
         ELSE [w1 EXCEPT !.err = "walkTree: object not found"]

\* lines 180-197
RunEntries(w, h, i) ==
    LET entries == store.objects[h].entries IN
    IF i > Len(entries) THEN w
    ELSE LET e == entries[i]
             old == IF h \in DOMAIN w.edges THEN w.edges[h] ELSE <<>>
             w1 == [w EXCEPT !.edges = (h :> (old \o <<e.hash>>)) @@ @]
         IN  IF e.mode = "dir"
             THEN LET w2 == RunWalkTree(w1, e.hash) IN
                  IF w2.err # "nil" THEN w2 ELSE RunEntries(w2, h, i + 1)
             ELSE IF e.mode = "file"
             THEN RunEntries([w1 EXCEPT !.blobs = @ \cup {e.hash}], h, i + 1)
             ELSE IF e.mode = "submodule"
             THEN LET w2 == RunWalkCommit(w1, e.hash) IN
                  IF w2.err # "nil" THEN w2 ELSE RunEntries(w2, h, i + 1)
             ELSE RunEntries(w, h, i + 1)

\* lines 42-54
RunRoots(w, roots, i) ==
    IF i > Len(roots) THEN w
    ELSE LET a == roots[i]
             w1 == IF a \in DOMAIN store.references
                   THEN RunWalkRef(w, store.references[a])
                   ELSE IF NewHash(a) \in DOMAIN store.objects
                   THEN RunWalk(w, NewHash(a))
                   ELSE [w EXCEPT !.err = "reference not found"]
         IN  IF w1.err # "nil" THEN w1 ELSE RunRoots(w1, roots, i + 1)

\* lines 56-60, the objects taken in one order
RunObjects(w, todo) ==
    IF todo = {} THEN w
    ELSE LET h == CHOOSE x \in todo : \A y \in todo : x <= y
             w1 == RunWalkObj(w, h)
         IN  IF w1.err # "nil" THEN w1 ELSE RunObjects(w1, todo \ {h})

\* lines 61-65, the references taken in one order
RunReferences(w, todo) ==
    IF todo = {} THEN w
    ELSE LET name == CHOOSE x \in todo : TRUE
             w1 == RunWalkRef(w, store.references[name])
         IN  IF w1.err # "nil" THEN w1 ELSE RunReferences(w1, todo \ {name})

\* lines 41-66
RunMain(roots) ==
    IF roots # <<>> THEN RunRoots(Fresh, roots, 1)
    ELSE LET w == RunObjects(Fresh, DOMAIN store.objects) IN
         IF w.err # "nil" THEN w ELSE RunReferences(w, DOMAIN store.references)

\* the accumulators are those of w
SameWalkState(w) ==
    /\ refs = w.refs
    /\ tags = w.tags /\ commits = w.commits /\ trees = w.trees /\ blobs = w.blobs
    /\ edges = w.edges

One(b) == IF b THEN 1 ELSE 0

C14_EdgesExact ==
    Completed =>
        /\ DOMAIN edges \subseteq tags \cup commits \cup trees
        /\ DOMAIN out.edges = DOMAIN edges
        /\ \A h \in tags :
              /\ HasTyped(h, "tag")
              /\ EdgesOf(edges, h) = <<EncodedObject(h).target>>
        /\ \A h \in commits :
              /\ HasTyped(h, "commit")
              /\ Len(EdgesOf(edges, h)) = Len(EncodedObject(h).parents) + 1
              /\ \A x \in Links(h) \cup Range(EdgesOf(edges, h)) :
                    Count(EdgesOf(edges, h), x) =
                        Count(EncodedObject(h).parents, x)
                            + One(x = EncodedObject(h).tree)
        /\ \A h \in trees :
              /\ HasTyped(h, "tree")
              /\ \A x \in Links(h) \cup Range(EdgesOf(edges, h)) :
                    Count(EdgesOf(edges, h), x) = EntryCount(h, x)
        /\ \A h \in DOMAIN edges : \A x \in Range(edges[h]) :
              out.edges[h][x] = Count(edges[h], x)
        /\ DOMAIN out.refEdges = DOMAIN refs
        /\ \A name \in DOMAIN refs :
              /\ refs[name] = Reference(name)
              /\ out.refEdges[name] =
                    IF Reference(name).type = "hash"
                    THEN [hash |-> TRUE, to |-> HashString(Reference(name).hash)]
                    ELSE [hash |-> FALSE, to |-> Reference(name).target]

\* a tag, a commit, a tree with a file, a direct and a symbolic reference
C14_Witness ==
    /\ Completed
    /\ store = LinearStore
    /\ args = <<V1, HEAD>>
    /\ edges = (4 :> <<1>>) @@ (1 :> <<2>>) @@ (2 :> <<3>>)
    /\ DOMAIN out.refEdges = {V1, HEAD, MASTER}

(***************************************************************************)
(* C15.  As claimed: the number of calls of walkRef, walk, walkTag,        *)
(* walkCommit and walkTree in a run, those that return at once on the      *)
(* visited check included, is at most the number of distinct (kind, hash)  *)
(* pairs plus the number of reference names of the store.  The pairs are   *)
(* counted generously here: every kind with every hash the store holds or  *)
(* mentions.                                                               *)
(***************************************************************************)
StoreHashes == DOMAIN store.objects \cup UNION {Links(h) : h \in DOMAIN store.objects}

KindHashPairs == {"tag", "commit", "tree", "blob"} \X StoreHashes

C15_CallsBounded ==
    nCalls <= Cardinality(KindHashPairs) + Cardinality(DOMAIN store.references)

(***************************************************************************)
(* C15, amended.  The calls of walkRef, walkTag, walkCommit and walkTree   *)
(* that get past the visited check and find their reference or object      *)
(* (each processes a new name or expands a new hash) number at most the    *)
(* reference names plus the objects of the store.  The calls that return   *)
(* at once, one per root argument and per link followed, are not bounded   *)
(* by that number.                                                         *)
(***************************************************************************)
RECURSIVE Total(_)
Total(f) ==
    IF DOMAIN f = {} THEN 0
    ELSE LET x == CHOOSE y \in DOMAIN f : TRUE
         IN  f[x] + Total([y \in DOMAIN f \ {x} |-> f[y]])

C15_ExpandingCallsBounded ==
    Total(expanded) + Total(processed) <=
        Cardinality(DOMAIN store.objects) + Cardinality(DOMAIN store.references)

\* more calls than pairs and names, two of them expanding
C15_Witness ==
    /\ Completed
    /\ store = FanStore
    /\ nCalls > Cardinality(KindHashPairs) + Cardinality(DOMAIN store.references)
    /\ Total(expanded) + Total(processed) = 2

(***************************************************************************)
(* C16.  The walk state only grows.  At every step each kind set keeps     *)
(* its members, each processed reference keeps its value, each edge list   *)
(* keeps what it held as a prefix; the rendering step changes none of it.  *)
(***************************************************************************)
IsPrefix(s, t) == Len(s) <= Len(t) /\ \A k \in 1..Len(s) : s[k] = t[k]

C16_WalkStateMonotonic ==
    [][/\ tags \subseteq tags'
       /\ commits \subseteq commits'
       /\ trees \subseteq trees'
       /\ blobs \subseteq blobs'
       /\ DOMAIN refs \subseteq DOMAIN refs'
       /\ \A name \in DOMAIN refs : refs'[name] = refs[name]
       /\ DOMAIN edges \subseteq DOMAIN edges'
       /\ \A h \in DOMAIN edges : IsPrefix(edges[h], edges'[h])
       /\ (pc = "render" => UNCHANGED walkState)]_vars

\* rendered after an edge list grew entry by entry
C16_Witness ==
    /\ Completed
    /\ out.printed
    /\ store = DiamondStore
    /\ 5 \in DOMAIN edges
    /\ Len(edges[5]) = 2
    /\ 6 \in DOMAIN edges
    /\ Len(edges[6]) = 2

(***************************************************************************)
(* C17.  As claimed: a run that walked a submodule-link entry whose        *)
(* target commit is not in the store completes, with the edge from the     *)
(* tree to the target recorded and the target in the commit set.           *)
(***************************************************************************)
ForeignSubmodules ==
    {e \in [tree : trees, hash : commits] :
        /\ HasTyped(e.tree, "tree")
        /\ \E k \in 1..Len(store.objects[e.tree].entries) :
              /\ store.objects[e.tree].entries[k].mode = "submodule"
              /\ store.objects[e.tree].entries[k].hash = e.hash
        /\ ~HasEncodedObject(e.hash)
        /\ e.tree \in DOMAIN edges
        /\ Count(edges[e.tree], e.hash) > 0}

C17_ForeignSubmoduleCompletes ==
    (Done /\ ForeignSubmodules # {}) => Completed

(***************************************************************************)
(* C18.  The step of walkTree at a regular-file entry puts the entry's     *)
(* target into the blob set and appends the edge whatever the store holds  *)
(* for that hash; it calls nothing, looks nothing up and cannot fail, and  *)
(* the loop goes on with the next entry.                                   *)
(***************************************************************************)
AtFileEntry ==
    /\ stack # <<>>
    /\ Top.fn = "walkTree"
    /\ Top.pc = "loop"
    /\ ret = "none"
    /\ Top.i <= Len(store.objects[Top.h].entries)
    /\ store.objects[Top.h].entries[Top.i].mode = "file"

C18_FileTargetNotLookedUp ==
    [][AtFileEntry =>
          LET h == Top.h
              target == store.objects[h].entries[Top.i].hash
              before == IF h \in DOMAIN edges THEN edges[h] ELSE <<>>
          IN  /\ blobs' = blobs \cup {target}
              /\ h \in DOMAIN edges'
              /\ edges'[h] = Append(before, target)
              /\ stack' = [stack EXCEPT ![1].i = @ + 1]
              /\ nCalls' = nCalls
              /\ failed' = failed
              /\ ret' = "none"
              /\ pc' = pc]_vars

\* a completed walk over file entries on a stored tree and on no object
C18_Witness ==
    /\ Completed
    /\ store = MistypedStore
    /\ args = <<TOPIC>>
    /\ ~HasEncodedObject(9)
    /\ HasTyped(3, "tree")
    /\ {3, 9} \subseteq blobs
    /\ 6 \in DOMAIN edges
    /\ edges[6] = <<3, 9>>

(***************************************************************************)
(* C19.  The graph rendered by a walk that completed has no dangling       *)
(* edge: both ends of every object edge are nodes of some kind-set, and    *)
(* every reference edge ends at such a node (direct reference) or at the   *)
(* node of a processed reference (symbolic reference).                     *)
(***************************************************************************)
ObjectNodes == {node.id : node \in out.nodes}

C19_NoDanglingEdge ==
    Completed =>
        /\ out.printed
        /\ ObjectNodes = {HashString(h) : h \in Visited}
        /\ \A h \in DOMAIN out.edges :
              /\ HashString(h) \in ObjectNodes
              /\ \A x \in DOMAIN out.edges[h] : HashString(x) \in ObjectNodes
        /\ \A h \in DOMAIN edges :
              /\ h \in Visited
              /\ \A k \in 1..Len(edges[h]) : edges[h][k] \in Visited
        /\ \A name \in DOMAIN out.refEdges :
              /\ name \in out.refNodes
              /\ IF out.refEdges[name].hash
                 THEN out.refEdges[name].to \in ObjectNodes
                 ELSE out.refEdges[name].to \in out.refNodes
        /\ \A name \in DOMAIN refs :
              IF refs[name].type = "hash"
              THEN refs[name].hash \in Visited
              ELSE refs[name].target \in DOMAIN refs

\* a rendered graph with a symbolic and a direct reference edge and edges
\* on a tag, a commit and a tree
C19_Witness ==
    /\ Completed
    /\ store = LinearStore
    /\ args = <<HEAD, V1>>
    /\ out.refEdges[HEAD] = [hash |-> FALSE, to |-> MASTER]
    /\ out.refEdges[MASTER] = [hash |-> TRUE, to |-> HashString(1)]
    /\ DOMAIN out.edges = {4, 1, 2}
    /\ ObjectNodes = {HashString(h) : h \in {1, 2, 3, 4}}

(***************************************************************************)
(* C20.  As claimed: the result of a walk that completed does not depend   *)
(* on the order of the root arguments.  If the walk of the same roots in   *)
(* the other order completes too, it ends with the same four kind-sets,    *)
(* the same reference map and the same multiset of edges.                  *)
(***************************************************************************)
Reversed(s) == [k \in 1..Len(s) |-> s[Len(s) + 1 - k]]

EdgeMultiset(ed) ==
    [h \in DOMAIN ed |-> [x \in Range(ed[h]) |-> Count(ed[h], x)]]

C20_RootOrderIrrelevant ==
    (Completed /\ args # <<>>) =>
        LET w == RunMain(Reversed(args))
        IN  w.err = "nil" =>
               /\ tags = w.tags
               /\ commits = w.commits
               /\ trees = w.trees
               /\ blobs = w.blobs
               /\ refs = w.refs
               /\ EdgeMultiset(edges) = EdgeMultiset(w.edges)

====
